---- MODULE Spec2Model ----
(***************************************************************************)
(* Model of SkillDevelopmentAgent (src/agents/skill_dev.py): the skill     *)
(* records store, the learning histories and the Student.progress mapping, *)
(* with one action per public coroutine of the agent.                      *)
(*                                                                         *)
(* Units.  gap_level, progress and difficulty are Python floats with two   *)
(* decimals; they are held as integers counting hundredths (0.3 is 30).    *)
(* completion_status and progress_level are held in thousandths (1.0 is    *)
(* 1000).  A reading of datetime.now().timestamp() is an integer tick.     *)
(***************************************************************************)
EXTENDS Integers, Sequences, FiniteSets, TLC

(***************************************************************************)
(* Bounds of the model.                                                    *)
(***************************************************************************)
MaxRecords == 2        \* entries in skill_records
MaxAttempts == 2       \* attempts of one learning-history entry
MaxDeepAttempts == 5   \* the same, for the callers that repeat one skill
MaxCount == 3          \* the count argument of recommend_exercises


VARIABLES
    progress,            \* Student.progress of each student object
    skill_records,       \* self.skill_records, a dict in insertion order
    learning_histories,  \* self.learning_histories
    skill_taxonomies,    \* the subjects self.skill_taxonomies holds
    progress_records,    \* self.progress_records, once the attribute exists
    attributes,          \* names of the instance attributes that exist
    result,              \* outcome of the last call
    tasks,               \* the coroutines handed to the event loop
    taxonomy_dir         \* the directory storage_path/taxonomies on disk

vars == <<progress, skill_records, learning_histories, skill_taxonomies,
          progress_records, attributes, result, tasks, taxonomy_dir>>

(***************************************************************************)
(* Python helpers: dict.get, str.lower, str.replace, str.startswith, the   *)
(* substring test "k in s".                                                *)
(***************************************************************************)
Get(d, k, default) == IF k \in DOMAIN d THEN d[k] ELSE default

UpperToLower ==
    [A |-> "a", B |-> "b", C |-> "c", D |-> "d", E |-> "e", F |-> "f",
     G |-> "g", H |-> "h", I |-> "i", J |-> "j", K |-> "k", L |-> "l",
     M |-> "m", N |-> "n", O |-> "o", P |-> "p", Q |-> "q", R |-> "r",
     S |-> "s", T |-> "t", U |-> "u", V |-> "v", W |-> "w", X |-> "x",
     Y |-> "y", Z |-> "z"]

RECURSIVE MapChars(_, _, _)
MapChars(s, i, table) ==
    IF i > Len(s) THEN ""
    ELSE LET c == SubSeq(s, i, i)
         IN  Get(table, c, c) \o MapChars(s, i + 1, table)

Lower(s) == MapChars(s, 1, UpperToLower)

ReplaceSpaces(s) == MapChars(s, 1, [x \in {" "} |-> "_"])

StartsWith(s, prefix) ==
    /\ Len(s) >= Len(prefix)
    /\ SubSeq(s, 1, Len(prefix)) = prefix

Contains(s, sub) ==
    \E i \in 1..(Len(s) - Len(sub) + 1) : SubSeq(s, i, i + Len(sub) - 1) = sub

Min(a, b) == IF a < b THEN a ELSE b
Max(a, b) == IF a > b THEN a ELSE b

\* round(x, 2) of the value x / (100 * unit): nearest hundredth, a tie
\* going to the even one (Python's round-half-even on the decimal value).
Round2(x, unit) ==
    LET q == x \div unit
        r == x % unit
    IN  IF 2 * r < unit THEN q
        ELSE IF 2 * r > unit THEN q + 1
        ELSE IF q % 2 = 0 THEN q ELSE q + 1

(***************************************************************************)
(* _create_default_taxonomies: per subject the skill definitions in the    *)
(* iteration order of the nested dicts (category by category).             *)
(***************************************************************************)
math_taxonomy == <<
  [category |-> "arithmetic", name |-> "addition", level |-> "beginner",
   keywords |-> <<"add", "sum", "plus", "addition">>,
   patterns |-> <<"\\d+\\s*\\+\\s*\\d+">>],
  [category |-> "arithmetic", name |-> "subtraction", level |-> "beginner",
   keywords |-> <<"subtract", "minus", "difference", "subtraction">>,
   patterns |-> <<"\\d+\\s*-\\s*\\d+">>],
  [category |-> "arithmetic", name |-> "multiplication", level |-> "intermediate",
   keywords |-> <<"multiply", "product", "times", "multiplication">>,
   patterns |-> <<"\\d+\\s*\\*\\s*\\d+", "\\d+\\s*(U+00D7)\\s*\\d+">>],
  [category |-> "arithmetic", name |-> "division", level |-> "intermediate",
   keywords |-> <<"divide", "quotient", "division">>,
   patterns |-> <<"\\d+\\s*/\\s*\\d+", "\\d+\\s*(U+00F7)\\s*\\d+">>],
  [category |-> "algebra", name |-> "equations", level |-> "intermediate",
   keywords |-> <<"equation", "solve", "unknown", "variable">>,
   patterns |-> <<"[a-z]\\s*=\\s*\\d+", "solve for [a-z]">>],
  [category |-> "algebra", name |-> "expressions", level |-> "intermediate",
   keywords |-> <<"expression", "simplify", "expand", "factor">>,
   patterns |-> <<"simplify", "expand", "factor">>],
  [category |-> "geometry", name |-> "area", level |-> "intermediate",
   keywords |-> <<"area", "square units", "square feet", "square meters">>,
   patterns |-> <<"area of", "find the area">>],
  [category |-> "geometry", name |-> "perimeter", level |-> "intermediate",
   keywords |-> <<"perimeter", "circumference", "distance around">>,
   patterns |-> <<"perimeter of", "find the perimeter">>] >>

language_taxonomy == <<
  [category |-> "reading", name |-> "comprehension", level |-> "intermediate",
   keywords |-> <<"comprehend", "understand", "interpret", "meaning">>,
   patterns |-> <<"what does .+ mean", "main idea">>],
  [category |-> "reading", name |-> "vocabulary", level |-> "intermediate",
   keywords |-> <<"vocabulary", "word meaning", "definition", "synonym">>,
   patterns |-> <<"define the word", "meaning of">>],
  [category |-> "writing", name |-> "grammar", level |-> "intermediate",
   keywords |-> <<"grammar", "sentence structure", "syntax", "punctuation">>,
   patterns |-> <<"correct grammar", "proper sentence">>],
  [category |-> "writing", name |-> "composition", level |-> "advanced",
   keywords |-> <<"compose", "write", "essay", "paragraph", "composition">>,
   patterns |-> <<"write an essay", "compose a paragraph">>] >>

science_taxonomy == <<
  [category |-> "scientific_method", name |-> "hypothesis", level |-> "intermediate",
   keywords |-> <<"hypothesis", "predict", "if-then", "testable">>,
   patterns |-> <<"form a hypothesis", "if .+ then">>],
  [category |-> "scientific_method", name |-> "experimentation", level |-> "intermediate",
   keywords |-> <<"experiment", "test", "variable", "control">>,
   patterns |-> <<"design an experiment", "control group">>],
  [category |-> "biology", name |-> "cells", level |-> "intermediate",
   keywords |-> <<"cell", "organelle", "membrane", "nucleus">>,
   patterns |-> <<"cell structure", "function of .+ in a cell">>],
  [category |-> "biology", name |-> "ecosystems", level |-> "intermediate",
   keywords |-> <<"ecosystem", "food web", "habitat", "species">>,
   patterns |-> <<"food chain", "ecosystem balance">>] >>

DefaultTaxonomies ==
    [math |-> math_taxonomy, language |-> language_taxonomy,
     science |-> science_taxonomy]

(***************************************************************************)
(* The content argument.  given is FALSE for None; text is the string the  *)
(* keywords are searched in; regex is the set of taxonomy patterns that    *)
(* re.search(pattern, text, re.IGNORECASE) finds in text.                  *)
(***************************************************************************)
NoContent == [given |-> FALSE, text |-> "", regex |-> {}]

AdditionContent ==
    [given |-> TRUE, text |-> "Let's practice addition: 2 + 3 = 5",
     regex |-> {"\\d+\\s*\\+\\s*\\d+"}]

HypothesisContent ==
    [given |-> TRUE,
     text |-> "Test the hypothesis: what does the word mean? Write a definition.",
     regex |-> {"what does .+ mean"}]

Contents == {NoContent, AdditionContent, HypothesisContent}

(***************************************************************************)
(* _map_skills_for_subject: the canned table.  Base skills carry neither   *)
(* a category nor a level key.                                             *)
(***************************************************************************)
BaseSkill(id, name, gap) == [id |-> id, name |-> name, gap_level |-> gap]

skill_map ==
    [math |->
       [beginner |-> <<BaseSkill("math_basic_arithmetic", "Basic Arithmetic", 20),
                       BaseSkill("math_fractions", "Fractions", 50),
                       BaseSkill("math_decimals", "Decimals", 40)>>,
        intermediate |-> <<BaseSkill("math_algebra", "Algebra", 30),
                           BaseSkill("math_geometry", "Geometry", 40),
                           BaseSkill("math_statistics", "Statistics", 60)>>,
        advanced |-> <<BaseSkill("math_calculus", "Calculus", 50),
                       BaseSkill("math_linear_algebra", "Linear Algebra", 70),
                       BaseSkill("math_probability", "Probability Theory", 40)>>],
     science |->
       [beginner |-> <<BaseSkill("science_basic_concepts", "Basic Science Concepts", 30),
                       BaseSkill("science_observation", "Scientific Observation", 40),
                       BaseSkill("science_classification", "Classification Skills", 50)>>,
        intermediate |-> <<BaseSkill("science_hypothesis", "Hypothesis Formation", 40),
                           BaseSkill("science_experimentation", "Experimentation", 50),
                           BaseSkill("science_data_analysis", "Data Analysis", 60)>>,
        advanced |-> <<BaseSkill("science_research", "Research Methods", 50),
                       BaseSkill("science_critical_analysis", "Critical Analysis", 60),
                       BaseSkill("science_scientific_writing", "Scientific Writing", 70)>>]]

\* a lookup that falls back to the math list of the tier for a subject it
\* does not know
MapSkillsWithDefault(subject, tier) ==
    Get(Get(skill_map, subject, skill_map["math"]), tier, <<>>)

\* a lookup that hands out the beginner list whatever the tier
MapSkillsIgnoringTier(subject, tier) ==
    Get(Get(skill_map, subject, <<>>), "beginner", <<>>)

_map_skills_for_subject(subject, tier) ==
    Get(Get(skill_map, subject, <<>>), tier, <<>>)

(***************************************************************************)
(* identify_skills                                                         *)
(***************************************************************************)
Tiers == {"beginner", "intermediate", "advanced"}

\* the thresholds taken inclusively: 0.3 still beginner, 0.7 still
\* intermediate
TierOfInclusive(current_level) ==
    IF current_level <= 30 THEN "beginner"
    ELSE IF current_level <= 70 THEN "intermediate"
    ELSE "advanced"

\* lines 47-52: the tier of a progress level
TierOf(current_level) ==
    IF current_level < 30 THEN "beginner"
    ELSE IF current_level < 70 THEN "intermediate"
    ELSE "advanced"

SkillKeywords(skill_info) ==
    { skill_info.keywords[j] : j \in DOMAIN skill_info.keywords }

AllKeywords ==
    UNION { UNION { SkillKeywords(DefaultTaxonomies[s][i]) :
                      i \in DOMAIN DefaultTaxonomies[s] } :
            s \in DOMAIN DefaultTaxonomies }

\* line 70: the keywords k with k.lower() in content.lower(), per content
KeywordHits ==
    [content \in Contents |->
        LET text == Lower(content.text)
        IN  { k \in AllKeywords : Contains(text, Lower(k)) }]

\* lines 66-79: keyword_found or pattern_found
SkillMatches(skill_info, content, hits) ==
    LET keywords == Get(skill_info, "keywords", <<>>)
        patterns == Get(skill_info, "patterns", <<>>)
        keyword_found == \E j \in DOMAIN keywords : keywords[j] \in hits
        pattern_found == \E j \in DOMAIN patterns :
                            patterns[j] \in content.regex
    IN  keyword_found \/ pattern_found

\* a merge that gives a newly matched skill the gap of a skill that was
\* already present
MergeSkillLowGap(skills, skill_info, subject, tier) ==
    LET hits == { j \in DOMAIN skills :
                    Lower(skills[j].name) = Lower(skill_info.name) }
    IN  IF hits # {}
        THEN LET j == CHOOSE h \in hits : \A g \in hits : h <= g
             IN  [skills EXCEPT ![j].gap_level = Min(@, 20)]
        ELSE Append(skills,
                [id |-> subject \o "_" \o ReplaceSpaces(Lower(skill_info.name)),
                 name |-> skill_info.name,
                 category |-> skill_info.category,
                 gap_level |-> 20,
                 level |-> Get(skill_info, "level", tier)])

\* a merge that appends every matched skill, present already or not
MergeSkillAlwaysAppend(skills, skill_info, subject, tier) ==
    Append(skills,
           [id |-> subject \o "_" \o ReplaceSpaces(Lower(skill_info.name)),
            name |-> skill_info.name,
            category |-> skill_info.category,
            gap_level |-> 30,
            level |-> Get(skill_info, "level", tier)])

\* lines 80-97: lower the gap of the first skill of that name, or append
MergeSkill(skills, skill_info, subject, tier) ==
    LET hits == { j \in DOMAIN skills :
                    Lower(skills[j].name) = Lower(skill_info.name) }
    IN  IF hits # {}
        THEN LET j == CHOOSE h \in hits : \A g \in hits : h <= g
             IN  [skills EXCEPT ![j].gap_level = Min(@, 20)]
        ELSE Append(skills,
                [id |-> subject \o "_" \o ReplaceSpaces(Lower(skill_info.name)),
                 name |-> skill_info.name,
                 category |-> skill_info.category,
                 gap_level |-> 30,
                 level |-> Get(skill_info, "level", tier)])

\* lines 63-97: the loop over the taxonomy from entry i on
RECURSIVE AnalyzeContent(_, _, _, _, _, _, _)
AnalyzeContent(skills, taxonomy, i, subject, tier, content, hits) ==
    IF i > Len(taxonomy) THEN skills
    ELSE AnalyzeContent(
            IF SkillMatches(taxonomy[i], content, hits)
            THEN MergeSkill(skills, taxonomy[i], subject, tier)
            ELSE skills,
            taxonomy, i + 1, subject, tier, content, hits)

\* self.skill_records[key] = value: an existing key keeps its position
DictSet(records, key, value) ==
    IF \E i \in DOMAIN records : records[i].key = key
    THEN [i \in DOMAIN records |->
            IF records[i].key = key THEN [key |-> key, value |-> value]
            ELSE records[i]]
    ELSE Append(records, [key |-> key, value |-> value])

AssessmentId(student_id, subject, t) ==
    "skill_assessment_" \o student_id \o "_" \o subject \o "_" \o ToString(t)

\* an identify_skills that starts from the skills of the last assessment
\* stored for the student and subject, where there is one
IdentifySkillsFromStore(records, taxonomies, student_progress, student_id, subject, content, t) ==
    LET assessment_id == AssessmentId(student_id, subject, t)
        current_level == Get(student_progress, subject, 0)
        tier == TierOf(current_level)
        earlier == { i \in DOMAIN records :
                       /\ records[i].value.student_id = student_id
                       /\ "subject" \in DOMAIN records[i].value
                       /\ records[i].value.subject = subject }
        base == IF earlier = {}
                THEN _map_skills_for_subject(subject, tier)
                ELSE records[CHOOSE i \in earlier :
                                \A j \in earlier : j <= i].value.skills
        taxonomy == IF Lower(subject) \in taxonomies
                    THEN DefaultTaxonomies[Lower(subject)]
                    ELSE <<>>
        skills == IF content.given /\ content.text # "" /\ taxonomy # <<>>
                  THEN AnalyzeContent(base, taxonomy, 1, subject, tier, content,
                                      KeywordHits[content])
                  ELSE base
        assessment == [student_id |-> student_id, subject |-> subject,
                       current_level |-> current_level, tier |-> tier,
                       skills |-> skills]
    IN  [records |-> DictSet(records, assessment_id, assessment),
         assessment_id |-> assessment_id,
         tier |-> tier,
         skills |-> skills]

\* identify_skills (lines 27-109) as a function of the state it reads; t is
\* the reading of datetime.now().timestamp() at line 41
identify_skills(records, taxonomies, student_progress, student_id, subject, content, t) ==
    LET assessment_id == AssessmentId(student_id, subject, t)
        current_level == Get(student_progress, subject, 0)
        tier == TierOf(current_level)
        base == _map_skills_for_subject(subject, tier)
        taxonomy == IF Lower(subject) \in taxonomies
                    THEN DefaultTaxonomies[Lower(subject)]
                    ELSE <<>>
        skills == IF content.given /\ content.text # "" /\ taxonomy # <<>>
                  THEN AnalyzeContent(base, taxonomy, 1, subject, tier, content,
                                      KeywordHits[content])
                  ELSE base
        assessment == [student_id |-> student_id, subject |-> subject,
                       current_level |-> current_level, tier |-> tier,
                       skills |-> skills]
    IN  [records |-> DictSet(records, assessment_id, assessment),
         assessment_id |-> assessment_id,
         tier |-> tier,
         skills |-> skills]

IdentifySkills(s, subject, content, t) ==
    \E r \in {identify_skills(skill_records, skill_taxonomies, progress[s],
                              s, subject, content, t)} :
        /\ skill_records' = r.records
        /\ result' = [op |-> "identify_skills", status |-> "returned",
                      student_id |-> s, subject |-> subject,
                      content |-> content.text,
                      assessment_id |-> r.assessment_id, skills |-> r.skills]
        /\ UNCHANGED <<progress, learning_histories, skill_taxonomies,
                       progress_records, attributes>>

(***************************************************************************)
(* Learning histories                                                      *)
(***************************************************************************)
EmptyDict == [k \in {} |-> 0]

SetDefault(d, k, v) == IF k \in DOMAIN d THEN d ELSE d @@ (k :> v)

Put(d, k, v) == [x \in DOMAIN d \cup {k} |-> IF x = k THEN v ELSE d[x]]

HistoryKey(student_id) == "history_" \o student_id

\* _get_learning_history (lines 580-605): the store after the lazy creation
\* of the student's and the subject's history
_get_learning_history(histories, student_id, subject) ==
    LET student_key == HistoryKey(student_id)
        h1 == SetDefault(histories, student_key, EmptyDict)
    IN  Put(h1, student_key, SetDefault(h1[student_key], subject, EmptyDict))

\* the subject history the call returns
SubjectHistory(histories, student_id, subject) ==
    Get(Get(histories, HistoryKey(student_id), EmptyDict), subject, EmptyDict)

RECURSIVE SumSeq(_)
SumSeq(seq) == IF seq = <<>> THEN 0 ELSE Head(seq) + SumSeq(Tail(seq))

NoFeedback == "None"

\* an update that takes the average before appending the new completion
StaleAverageUpdate(histories, student_id, subject, skill_id, completion_status, feedback) ==
    LET h == _get_learning_history(histories, student_id, subject)
        student_key == HistoryKey(student_id)
        history == h[student_key][subject]
        old == Get(history, skill_id,
                   [attempts |-> 0, completions |-> <<>>,
                    average_completion |-> [num |-> 0, den |-> 1]])
        updated == [old EXCEPT !.attempts = @ + 1,
                               !.completions = Append(@, completion_status),
                               !.average_completion =
                                   [num |-> SumSeq(old.completions),
                                    den |-> Max(1, Len(old.completions))]]
    IN  Put(h, student_key,
            Put(h[student_key], subject, Put(history, skill_id, updated)))

\* _update_learning_history (lines 607-641).  average_completion is the
\* quotient sum / len, kept as numerator and denominator.
_update_learning_history(histories, student_id, subject, skill_id, completion_status, feedback) ==
    LET h == _get_learning_history(histories, student_id, subject)
        student_key == HistoryKey(student_id)
        history == h[student_key][subject]
        old == Get(history, skill_id,
                   [attempts |-> 0, completions |-> <<>>,
                    average_completion |-> [num |-> 0, den |-> 1]])
        completions == Append(old.completions, completion_status)
        updated == [old EXCEPT !.attempts = @ + 1,
                               !.completions = completions,
                               !.average_completion =
                                   [num |-> SumSeq(completions),
                                    den |-> Len(completions)]]
        skill_history ==
            IF feedback # NoFeedback /\ feedback # ""
            THEN Put(updated, "feedback",
                     Append(Get(updated, "feedback", <<>>), feedback))
            ELSE updated
    IN  Put(h, student_key,
            Put(h[student_key], subject, Put(history, skill_id, skill_history)))

(***************************************************************************)
(* Gap adjustment                                                          *)
(***************************************************************************)
\* the adjustment without the max(0.0, ...) of line 660
NewGapUnclamped(current_gap, completion_status) ==
    Round2(current_gap * 100 - completion_status * 2, 100)

\* the adjustment cutting the third decimal off instead of rounding
NewGapTruncated(current_gap, completion_status) ==
    Max(0, current_gap * 100 - completion_status * 2) \div 100

\* lines 659-663: gap in hundredths, completion_status in thousandths, so
\* current_gap - completion_status * 0.2 counts 1/10000 as
\* current_gap * 100 - completion_status * 2
NewGap(current_gap, completion_status) ==
    Round2(Max(0, current_gap * 100 - completion_status * 2), 100)

\* lines 655-664: the first skill of that id in one assessment
UpdateSkills(skills, skill_id, completion_status) ==
    LET hits == { j \in DOMAIN skills : skills[j].id = skill_id }
    IN  IF hits = {} THEN skills
        ELSE LET j == CHOOSE h \in hits : \A g \in hits : h <= g
             IN  [skills EXCEPT ![j].gap_level =
                     NewGap(Get(skills[j], "gap_level", 50), completion_status)]

\* _update_skill_gap (lines 643-664): the scan over every record from
\* index i on; the inner break leaves the outer loop running.  A record
\* of the student without a "subject" key ends the scan with KeyError,
\* the updates made so far remain.
RECURSIVE _update_skill_gap(_, _, _, _, _, _)
_update_skill_gap(records, i, student_id, subject, skill_id, completion_status) ==
    IF i > Len(records) THEN [records |-> records, status |-> "returned"]
    ELSE LET assessment == records[i].value
         IN  IF assessment.student_id # student_id
             THEN _update_skill_gap(records, i + 1, student_id, subject,
                                    skill_id, completion_status)
             ELSE IF "subject" \notin DOMAIN assessment
             THEN [records |-> records, status |-> "KeyError"]
             ELSE IF assessment.subject # subject
             THEN _update_skill_gap(records, i + 1, student_id, subject,
                                    skill_id, completion_status)
             ELSE IF "skills" \notin DOMAIN assessment
             THEN [records |-> records, status |-> "KeyError"]
             ELSE _update_skill_gap(
                     [records EXCEPT ![i].value.skills =
                         UpdateSkills(@, skill_id, completion_status)],
                     i + 1, student_id, subject, skill_id, completion_status)

(***************************************************************************)
(* Exercise recommendation                                                 *)
(***************************************************************************)
GapOf(skill) == Get(skill, "gap_level", 0)

\* an insertion that puts a skill in front of the skills of equal gap
InsertByGapUnstable(sorted, skill) ==
    LET k == Cardinality({ j \in DOMAIN sorted : GapOf(sorted[j]) > GapOf(skill) })
    IN  SubSeq(sorted, 1, k) \o <<skill>> \o SubSeq(sorted, k + 1, Len(sorted))

\* list.sort(key=gap_level, reverse=True): stable, equal keys keep their
\* order
InsertByGap(sorted, skill) ==
    LET k == Cardinality({ j \in DOMAIN sorted : GapOf(sorted[j]) >= GapOf(skill) })
    IN  SubSeq(sorted, 1, k) \o <<skill>> \o SubSeq(sorted, k + 1, Len(sorted))

\* a sort that puts the smallest gap first
RECURSIVE SortByGapAscending(_)
SortByGapAscending(skills) ==
    IF skills = <<>> THEN <<>>
    ELSE LET sorted == SortByGapAscending(SubSeq(skills, 1, Len(skills) - 1))
             skill == skills[Len(skills)]
             k == Cardinality({ j \in DOMAIN sorted :
                                  GapOf(sorted[j]) <= GapOf(skill) })
         IN  SubSeq(sorted, 1, k) \o <<skill>> \o SubSeq(sorted, k + 1, Len(sorted))

RECURSIVE SortByGap(_)
SortByGap(skills) ==
    IF skills = <<>> THEN <<>>
    ELSE InsertByGap(SortByGap(SubSeq(skills, 1, Len(skills) - 1)),
                     skills[Len(skills)])

\* seq[:count]
Slice(seq, count) ==
    IF count >= 0 THEN SubSeq(seq, 1, Min(count, Len(seq)))
    ELSE SubSeq(seq, 1, Max(0, Len(seq) + count))

LevelFactor(skill_level) ==
    Get([beginner |-> -100, intermediate |-> 0, advanced |-> 100],
        Lower(skill_level), 0)

\* the sum without the cap of the attempt factor (line 550)
RawDifficultyUncapped(gap_level, progress_level, skill_level, previous_attempts) ==
    LET base_difficulty == gap_level * 10
        progress_factor == progress_level * 5
        level_factor == LevelFactor(skill_level)
        attempt_factor == previous_attempts * 50
    IN  Min(Max(base_difficulty + progress_factor + level_factor + attempt_factor,
                100), 1000)

\* _calculate_difficulty (lines 536-554) before the final round, in
\* thousandths: gap and progress are hundredths
RawDifficulty(gap_level, progress_level, skill_level, previous_attempts) ==
    LET base_difficulty == gap_level * 10
        progress_factor == progress_level * 5
        level_factor == LevelFactor(skill_level)
        attempt_factor == Min(previous_attempts * 50, 200)
    IN  Min(Max(base_difficulty + progress_factor + level_factor + attempt_factor,
                100), 1000)

\* _calculate_difficulty: round(difficulty, 2).  When the decimal value
\* lies half way between two hundredths the float sum is a neighbour of it
\* and either hundredth can result.
_calculate_difficulty(gap_level, progress_level, skill_level, previous_attempts) ==
    LET x == RawDifficulty(gap_level, progress_level, skill_level, previous_attempts)
    IN  IF x % 10 = 5 THEN {x \div 10, x \div 10 + 1} ELSE {Round2(x, 10)}

\* the difficulties of the target skills, one choice per skill
RECURSIVE DifficultyChoices(_, _, _, _)
DifficultyChoices(target_skills, i, progress_level, learning_history) ==
    IF i > Len(target_skills) THEN {<<>>}
    ELSE LET skill == target_skills[i]
             first == _calculate_difficulty(
                          skill.gap_level, progress_level,
                          Get(skill, "level", "beginner"),
                          Get(Get(learning_history, skill.id, EmptyDict),
                              "attempts", 0))
             rest == DifficultyChoices(target_skills, i + 1, progress_level,
                                       learning_history)
         IN  { <<d>> \o ds : d \in first, ds \in rest }

\* lines 127-137: the skills the exercises are made for.  Without a gap
\* above 0.4 skill_gaps is the list stored in the record, sorted in place.
\* a filter that lets a gap of exactly 0.4 through
IsSignificantGapInclusive(skill) == GapOf(skill) >= 40

IsSignificantGap(skill) == GapOf(skill) > 40

TargetSelection(skills, count) ==
    LET filtered == SelectSeq(skills, IsSignificantGap)
        in_place == filtered = <<>>
        skill_gaps == SortByGap(IF in_place THEN skills ELSE filtered)
    IN  [in_place |-> in_place, skill_gaps |-> skill_gaps,
         target_skills |-> Slice(skill_gaps, count)]

\* _determine_exercise_type (lines 666-704)
default_types ==
    [beginner |-> "multiple_choice", intermediate |-> "short_answer",
     advanced |-> "project"]

level_appropriate ==
    [beginner |-> {"multiple_choice", "matching", "fill_in_blank"},
     intermediate |-> {"short_answer", "multiple_choice", "problem_solving"},
     advanced |-> {"project", "essay", "problem_solving", "research"}]

\* getattr(student, "preferences", {}) at line 687: the Student model has
\* the fields id, name, grade_level, subjects, learning_style and progress
\* and takes no other attribute, so the default is what the call returns
StudentPreferences == EmptyDict

_determine_exercise_type(skill, preferences) ==
    LET skill_level == Get(skill, "level", "beginner")
        preferred_type == Get(preferences, "exercise_type", "None")
    IN  IF /\ preferred_type \notin {"None", ""}
           /\ preferred_type \in Get(level_appropriate, skill_level, {})
        THEN preferred_type
        ELSE Get(default_types, skill_level, "multiple_choice")

\* str(learning_history) at line 506: the strings that make up the text of
\* the dict, namely the skill ids, the keys of the entries and the feedback
\* contents; the numbers and time stamps in it spell no skill name
HistoryStrings(learning_history) ==
    DOMAIN learning_history
    \cup {"attempts", "completions", "average_completion", "last_attempt",
          "feedback", "timestamp", "content"}
    \cup UNION { { Get(learning_history[k], "feedback", <<>>)[i] :
                     i \in DOMAIN Get(learning_history[k], "feedback", <<>>) } :
                 k \in DOMAIN learning_history }

\* _generate_exercise_description (lines 472-522) for a target skill: the
\* level that picks the opening sentence, and which sentences follow it
\* (the default taxonomies hold no exercise_templates)
_generate_exercise_description(skill, subject, learning_history, content) ==
    LET skill_name == skill.name
        named == /\ learning_history # EmptyDict
                 /\ \E x \in HistoryStrings(learning_history) :
                       Contains(x, skill_name)
        attempts ==
            IF named
            THEN Get(Get(learning_history,
                         subject \o "_" \o ReplaceSpaces(Lower(skill_name)),
                         EmptyDict),
                     "attempts", 0)
            ELSE 0
    IN  [level |-> Get(skill, "level", "beginner"),
         attempts |-> attempts,
         attempts_sentence |-> attempts > 0,
         challenge_sentence |-> attempts > 2,
         content_context |-> content.given /\ content.text # ""]

\* lines 176-187: the exercise records (estimated time and resources are
\* not held)
Exercises(target_skills, difficulties, subject, learning_history, content) ==
    [i \in 1..Len(target_skills) |->
        [id |-> "exercise_" \o target_skills[i].id \o "_" \o ToString(i - 1),
         skill_id |-> target_skills[i].id,
         skill_name |-> target_skills[i].name,
         difficulty |-> difficulties[i],
         subject |-> subject,
         category |-> Get(target_skills[i], "category", "general"),
         exercise_type |-> _determine_exercise_type(target_skills[i],
                                                    StudentPreferences),
         description |-> _generate_exercise_description(
                             target_skills[i], subject, learning_history,
                             content)]]

\* lines 126-189: recommend_exercises after its await, r holding the store,
\* the id of the assessment and the list identify_skills returned
RecommendFrom(r, s, subject, count, content) ==
    \E sel \in {TargetSelection(r.skills, count)} :
    \E histories \in {_get_learning_history(learning_histories, s, subject)} :
        /\ skill_records' =
               IF sel.in_place
               THEN [i \in DOMAIN r.records |->
                       IF r.records[i].key = r.assessment_id
                       THEN [r.records[i] EXCEPT !.value.skills = sel.skill_gaps]
                       ELSE r.records[i]]
               ELSE r.records
        /\ learning_histories' = histories
        /\ attributes' = attributes \cup {"learning_histories"}
        /\ \E difficulties \in DifficultyChoices(sel.target_skills, 1,
                                   Get(progress[s], subject, 0),
                                   SubjectHistory(histories, s, subject)) :
              result' = [op |-> "recommend_exercises", status |-> "returned",
                         student_id |-> s, subject |-> subject, count |-> count,
                         content |-> content.text,
                         assessment_id |-> r.assessment_id,
                         skills |-> r.skills,
                         target_skills |-> sel.target_skills,
                         exercises |-> Exercises(
                                          sel.target_skills, difficulties, subject,
                                          SubjectHistory(histories, s, subject),
                                          content)]
        /\ UNCHANGED <<progress, skill_taxonomies, progress_records>>

RecommendExercises(s, subject, count, content, t) ==
    \E r \in {identify_skills(skill_records, skill_taxonomies, progress[s],
                              s, subject, content, t)} :
        RecommendFrom(r, s, subject, count, content)

(***************************************************************************)
(* recommend_skill_exercises (lines 191-212)                               *)
(***************************************************************************)
\* an argument left at its default None
None == "None"

\* bool(x) of an optional string
Truthy(x) == x # None /\ x # ""

\* _get_skill_info (lines 437-470), the parameters in the order of the
\* signature: subject, category, skill_name, skill_id
_get_skill_info(taxonomies, subject, category, skill_name, skill_id) ==
    LET canned == UNION { { _map_skills_for_subject(subject, tier)[j] :
                              j \in DOMAIN _map_skills_for_subject(subject, tier) } :
                            tier \in Tiers }
        by_id == { skill \in canned : skill.id = skill_id }
        taxonomy == IF subject \in taxonomies
                    THEN DefaultTaxonomies[subject] ELSE <<>>
        entries == { taxonomy[i] : i \in DOMAIN taxonomy }
        by_category == { e \in entries :
                           e.category = category /\ e.name = skill_name }
        by_name == { e \in entries : e.name = skill_name }
    IN  IF Truthy(skill_id) /\ by_id # {}
        THEN [found |-> TRUE, name |-> (CHOOSE skill \in by_id : TRUE).name]
        ELSE IF Truthy(category) /\ Truthy(skill_name) /\ by_category # {}
        THEN [found |-> TRUE, name |-> skill_name]
        ELSE IF Truthy(skill_name) /\ by_name # {}
        THEN [found |-> TRUE, name |-> skill_name]
        ELSE [found |-> FALSE]

\* line 194 hands skill_id over as the second positional argument, which
\* is category; lines 203-209 call _calculate_difficulty(current_level, i)
RecommendSkillExercises(s, subject, skill_id) ==
    LET skill_info == _get_skill_info(skill_taxonomies, subject, skill_id,
                                      None, None)
        current_level == Get(progress[s], subject, 0)
        call == [op |-> "recommend_skill_exercises", status |-> "returned",
                 student_id |-> s, subject |-> subject, skill_id |-> skill_id]
    IN  /\ IF ~skill_info.found
           THEN result' = call @@ [exercises |-> <<>>]
           ELSE \E difficulties \in
                     { <<d0, d1, d2>> :
                         d0 \in _calculate_difficulty(current_level, 0,
                                                      "beginner", 0),
                         d1 \in _calculate_difficulty(current_level, 100,
                                                      "beginner", 0),
                         d2 \in _calculate_difficulty(current_level, 200,
                                                      "beginner", 0) } :
                   result' = call @@
                       [exercises |->
                           [i \in 1..3 |->
                               [id |-> "exercise_" \o skill_id \o "_"
                                          \o ToString(i - 1),
                                skill_name |-> skill_info.name,
                                difficulty |-> difficulties[i],
                                estimated_time |-> 15 + (i - 1) * 5]]]
        /\ UNCHANGED <<progress, skill_records, learning_histories,
                       skill_taxonomies, progress_records, attributes,
                       tasks, taxonomy_dir>>

(***************************************************************************)
(* generate_skill_development_plan (lines 357-391)                         *)
(***************************************************************************)
\* lines 362-391: the plan after its await
PlanFrom(r, s, subject) ==
    LET prioritized_skills == SortByGap(r.skills)
        top == Slice(prioritized_skills, 5)
        timeline == [i \in 1..Len(top) |->
                        [week |-> i, skill_id |-> top[i].id,
                         skill_name |-> top[i].name,
                         target_improvement |-> 20]]
        current_level == Get(progress[s], subject, 0)
    IN  /\ skill_records' = r.records
        /\ result' = [op |-> "generate_skill_development_plan",
                      status |-> "returned",
                      student_id |-> s, subject |-> subject,
                      assessment_id |-> r.assessment_id,
                      skills |-> r.skills,
                      current_level |-> current_level,
                      target_level |-> Min(100, current_level + 30),
                      duration_weeks |-> Len(timeline),
                      priority_skills |-> [i \in 1..Len(top) |-> top[i].id],
                      timeline |-> timeline]
        /\ UNCHANGED <<progress, learning_histories, skill_taxonomies,
                       progress_records, attributes>>

GeneratePlan(s, subject, t) ==
    \E r \in {identify_skills(skill_records, skill_taxonomies, progress[s],
                              s, subject, NoContent, t)} :
        PlanFrom(r, s, subject)

(***************************************************************************)
(* track_progress                                                          *)
(***************************************************************************)
\* lines 226-244: the scan for the exercise from record i on.  Reading
\* assessment["skills"] of a record without that key raises KeyError.
RECURSIVE FindExercise(_, _, _, _)
FindExercise(records, i, student_id, exercise_id) ==
    IF i > Len(records) THEN [status |-> "not_found"]
    ELSE LET assessment == records[i].value
         IN  IF assessment.student_id # student_id
             THEN FindExercise(records, i + 1, student_id, exercise_id)
             ELSE IF "skills" \notin DOMAIN assessment
             THEN [status |-> "KeyError"]
             ELSE LET hits == { j \in DOMAIN assessment.skills :
                                  StartsWith(exercise_id,
                                      "exercise_" \o assessment.skills[j].id) }
                  IN  IF hits = {}
                      THEN FindExercise(records, i + 1, student_id, exercise_id)
                      ELSE LET j == CHOOSE h \in hits : \A g \in hits : h <= g
                           IN  [status |-> "found",
                                skill_id |-> assessment.skills[j].id,
                                skill_name |-> assessment.skills[j].name,
                                subject |-> assessment.subject]

\* a progress update that takes a little off before it adds
NewProgressDecaying(current_progress, completion_status) ==
    Min(current_progress - 3 + completion_status \div 200, 100)

\* lines 273-276, in hundredths: completion_status * 0.05 is exact for the
\* completion values drawn here (multiples of 0.2)
NewProgress(current_progress, completion_status) ==
    Min(current_progress + completion_status \div 200, 100)

TrackProgress(s, exercise_id, completion_status, feedback, t) ==
    \E exercise \in {FindExercise(skill_records, 1, s, exercise_id)} :
    LET call == [op |-> "track_progress", student_id |-> s,
                 exercise_id |-> exercise_id,
                 completion_status |-> completion_status]
    IN  IF exercise.status = "KeyError"
        THEN /\ result' = call @@ [status |-> "KeyError"]
             /\ UNCHANGED <<progress, skill_records, learning_histories,
                            skill_taxonomies, progress_records, attributes>>
        ELSE IF exercise.status = "not_found"
        THEN /\ result' = call @@ [status |-> "returned",
                                   error |-> "Exercise not found"]
             /\ UNCHANGED <<progress, skill_records, learning_histories,
                            skill_taxonomies, progress_records, attributes>>
        ELSE IF "progress_records" \notin attributes
        THEN \* line 266 reads self.progress_records, which __init__ never sets
             /\ result' = call @@ [status |-> "AttributeError",
                                   skill_id |-> exercise.skill_id,
                                   subject |-> exercise.subject]
             /\ UNCHANGED <<progress, skill_records, learning_histories,
                            skill_taxonomies, progress_records, attributes>>
        ELSE LET subject == exercise.subject
                 current_progress == Get(progress[s], subject, 0)
                 new_progress == NewProgress(current_progress, completion_status)
                 progress_id == "progress_" \o exercise_id \o "_" \o ToString(t)
                 histories == _update_learning_history(learning_histories, s,
                                  subject, exercise.skill_id, completion_status,
                                  feedback)
                 gap == _update_skill_gap(skill_records, 1, s, subject,
                                          exercise.skill_id, completion_status)
             IN  /\ progress_records' =
                        DictSet(progress_records, progress_id,
                                [student_id |-> s, exercise_id |-> exercise_id,
                                 skill_id |-> exercise.skill_id,
                                 subject |-> subject,
                                 completion_status |-> completion_status])
                 /\ progress' = [progress EXCEPT ![s] = Put(@, subject, new_progress)]
                 /\ learning_histories' = histories
                 /\ attributes' = attributes \cup {"learning_histories"}
                 /\ skill_records' = gap.records
                 /\ result' =
                        IF gap.status = "KeyError"
                        THEN call @@ [status |-> "KeyError"]
                        ELSE call @@ [status |-> "returned",
                                      skill_id |-> exercise.skill_id,
                                      subject |-> subject,
                                      previous_progress |-> current_progress,
                                      new_progress |-> new_progress]
                 /\ UNCHANGED skill_taxonomies

(***************************************************************************)
(* track_skill_progress                                                    *)
(***************************************************************************)
\* lines 332-340: the scan for the subject of the skill from record i on
RECURSIVE FindSubject(_, _, _, _)
FindSubject(records, i, student_id, skill_id) ==
    IF i > Len(records) THEN [status |-> "none"]
    ELSE LET assessment == records[i].value
         IN  IF assessment.student_id # student_id
             THEN FindSubject(records, i + 1, student_id, skill_id)
             ELSE IF "skills" \notin DOMAIN assessment
             THEN [status |-> "KeyError"]
             ELSE IF \E j \in DOMAIN assessment.skills :
                        assessment.skills[j].id = skill_id
             THEN [status |-> "found", subject |-> assessment.subject]
             ELSE FindSubject(records, i + 1, student_id, skill_id)

Scores(exercise_results) ==
    [i \in DOMAIN exercise_results |-> Get(exercise_results[i], "score", 0)]

\* lines 309-313: min(1.0, avg_score / 100) in thousandths; the quotient is
\* exact for the result lists drawn here (at most two integer scores)
ProgressLevel(exercise_results) ==
    LET scores == Scores(exercise_results)
    IN  IF scores = <<>> THEN 0
        ELSE Min(1000, (SumSeq(scores) * 10) \div Len(scores))

TrackSkillProgress(s, skill_id, exercise_results, t) ==
    LET progress_level == ProgressLevel(exercise_results)
        progress_record ==
            [student_id |-> s, skill_id |-> skill_id,
             exercise_count |-> Len(exercise_results),
             progress_level |-> progress_level,
             completed_exercises |->
                 [i \in DOMAIN exercise_results |->
                     Get(exercise_results[i], "id", "None")]]
        record_id == "skill_progress_" \o s \o "_" \o skill_id \o "_" \o ToString(t)
        call == [op |-> "track_skill_progress", student_id |-> s,
                 skill_id |-> skill_id, progress_level |-> progress_level,
                 record_id |-> record_id]
    IN
    \E stored \in {DictSet(skill_records, record_id, progress_record)} :
    \E found \in {FindSubject(stored, 1, s, skill_id)} :
        /\ IF found.status = "KeyError"
           THEN /\ skill_records' = stored
                /\ result' = call @@ [status |-> "KeyError"]
                /\ UNCHANGED <<learning_histories, attributes>>
           ELSE IF found.status = "none"
           THEN /\ skill_records' = stored
                /\ result' = call @@ [status |-> "returned",
                                      value |-> progress_record]
                /\ UNCHANGED <<learning_histories, attributes>>
           ELSE LET histories == _update_learning_history(learning_histories,
                                     s, found.subject, skill_id, progress_level,
                                     "Completed")
                IN
                \E gap \in {_update_skill_gap(stored, 1, s, found.subject,
                                              skill_id, progress_level)} :
                    /\ learning_histories' = histories
                    /\ attributes' = attributes \cup {"learning_histories"}
                    /\ skill_records' = gap.records
                    /\ result' =
                           IF gap.status = "KeyError"
                           THEN call @@ [status |-> "KeyError",
                                         subject |-> found.subject]
                           ELSE call @@ [status |-> "returned",
                                         subject |-> found.subject,
                                         value |-> progress_record]
        /\ UNCHANGED <<progress, skill_taxonomies, progress_records>>

(***************************************************************************)
(* Construction: __init__ and the loading of the taxonomies from disk      *)
(***************************************************************************)
EndsWith(s, suffix) ==
    /\ Len(s) >= Len(suffix)
    /\ SubSeq(s, Len(s) - Len(suffix) + 1, Len(s)) = suffix

\* s.split(sep)[0]: the part of s before the first sep, all of s without one
SplitFirst(s, sep) ==
    LET at == { i \in 1..(Len(s) - Len(sep) + 1) :
                  SubSeq(s, i, i + Len(sep) - 1) = sep }
    IN  IF at = {} THEN s
        ELSE SubSeq(s, 1, (CHOOSE i \in at : \A j \in at : i <= j) - 1)

TaxonomyFile(subject) == subject \o "_taxonomy.json"

\* _create_default_taxonomies (lines 908-921): one file per default subject
DefaultFiles == { TaxonomyFile(subject) : subject \in DOMAIN DefaultTaxonomies }

\* the directory as a construction on a path without it leaves it
WrittenDefaults == [exists |-> TRUE, files |-> DefaultFiles]

\* _load_skill_taxonomies (lines 558-578): the directory and the subjects
\* loaded.  The files drawn here hold the default taxonomy of their subject.
_load_skill_taxonomies(dir) ==
    LET files == IF dir.exists THEN dir.files ELSE DefaultFiles
    IN  [dir |-> [exists |-> TRUE, files |-> files],
         taxonomies |-> { SplitFirst(f, "_taxonomy.json") :
                            f \in { g \in files : EndsWith(g, ".json") } }]

\* __init__ (lines 10-25) of an agent that is not constructed yet
Construct ==
    /\ attributes = {}
    /\ \E loaded \in {_load_skill_taxonomies(taxonomy_dir)} :
          /\ taxonomy_dir' = loaded.dir
          /\ skill_taxonomies' = loaded.taxonomies
    /\ attributes' = {"storage_path", "skill_records", "skill_taxonomies"}
    /\ skill_records' = <<>>
    /\ result' = [op |-> "__init__", status |-> "returned",
                  found |-> taxonomy_dir]
    /\ UNCHANGED <<progress, learning_histories, progress_records, tasks>>

(***************************************************************************)
(* The agent after construction on an empty storage path, and its callers  *)
(***************************************************************************)
\* __init__ (lines 16-25) on a storage path without taxonomies, and the
\* Student objects of the callers
InitWith(profiles) ==
    /\ progress \in profiles
    /\ skill_records = <<>>
    /\ learning_histories = EmptyDict
    /\ skill_taxonomies = DOMAIN DefaultTaxonomies
    /\ progress_records = <<>>
    /\ attributes = {"storage_path", "skill_records", "skill_taxonomies"}
    /\ result = [op |-> "__init__", status |-> "returned"]
    /\ tasks = <<>>
    /\ taxonomy_dir = WrittenDefaults

AllAttempts(histories) ==
    UNION { UNION { { histories[k][subject][skill_id].attempts :
                        skill_id \in DOMAIN histories[k][subject] } :
                    subject \in DOMAIN histories[k] } :
            k \in DOMAIN histories }

\* the bounds of the callers in: the size of the store and the attempts of
\* one history entry
WithinBounds(in) ==
    /\ Len(skill_records) <= in.max_records
    /\ \A a \in AllAttempts(learning_histories) : a <= in.max_attempts

\* __init__ has run: the agent has its store
Constructed == "skill_records" \in attributes

\* the calls of the callers in on the constructed agent, each a tuple of
\* arguments, at the clock readings in.times
NextFor(in) ==
    \/ \E c \in in.identify, t \in in.times :
          /\ Constructed
          /\ IdentifySkills(c[1], c[2], c[3], t) /\ WithinBounds(in)'
          /\ UNCHANGED <<tasks, taxonomy_dir>>
    \/ \E c \in in.recommend, t \in in.times :
          /\ Constructed
          /\ RecommendExercises(c[1], c[2], c[3], c[4], t) /\ WithinBounds(in)'
          /\ UNCHANGED <<tasks, taxonomy_dir>>
    \/ \E c \in in.plan, t \in in.times :
          /\ Constructed
          /\ GeneratePlan(c[1], c[2], t) /\ WithinBounds(in)'
          /\ UNCHANGED <<tasks, taxonomy_dir>>
    \/ \E c \in in.track, t \in in.times :
          /\ Constructed
          /\ TrackProgress(c[1], c[2], c[3], c[4], t) /\ WithinBounds(in)'
          /\ UNCHANGED <<tasks, taxonomy_dir>>
    \/ \E c \in in.skill, t \in in.times :
          /\ Constructed
          /\ TrackSkillProgress(c[1], c[2], c[3], t) /\ WithinBounds(in)'
          /\ UNCHANGED <<tasks, taxonomy_dir>>

Perfect == <<[id |-> "e1", score |-> 100]>>
Partial == <<[id |-> "e1", score |-> 33], [id |-> "e2", score |-> 50]>>

\* two students working on math, two readings of the clock
Callers ==
    [identify |-> {<<"s1", "math", NoContent>>, <<"s2", "math", NoContent>>},
     recommend |-> {<<"s1", "math", 3, NoContent>>},
     plan |-> {<<"s2", "math">>},
     track |-> {<<"s1", "exercise_math_fractions_0", 1000, NoFeedback>>,
                <<"s1", "exercise_math_fract", 1000, "well done">>,
                <<"s2", "exercise_math_fractions_0", 600, NoFeedback>>},
     skill |-> {<<"s1", "math_fractions", Perfect>>,
                <<"s1", "math_fractions", Partial>>,
                <<"s1", "math_addition", <<>>>>,
                <<"s2", "math_basic_arithmetic", Perfect>>},
     times |-> {1, 2},
     max_records |-> MaxRecords,
     max_attempts |-> MaxAttempts]

Init == InitWith({ [s1 |-> [math |-> 20], s2 |-> EmptyDict] })

Next == NextFor(Callers)

Spec == Init /\ [][Next]_vars

(***************************************************************************)
(* One student of every tier asking for skills, exercises and plans in     *)
(* three subjects, with and without content.                               *)
(***************************************************************************)
Counts == 0..MaxCount

ContentCallers ==
    [identify |-> {<<"s1", "math", NoContent>>,
                   <<"s1", "math", AdditionContent>>,
                   <<"s1", "science", HypothesisContent>>},
     recommend |-> ({"s1"} \X {"math"} \X Counts \X {NoContent})
                   \cup ({"s1"} \X {"language"} \X Counts \X {HypothesisContent})
                   \cup {<<"s1", "science", 2, HypothesisContent>>},
     plan |-> {<<"s1", "science">>},
     track |-> {<<"s1", "exercise_science_data_analysis_1", 1000, NoFeedback>>},
     skill |-> {<<"s1", "science_hypothesis", Perfect>>},
     times |-> {1},
     max_records |-> MaxRecords,
     max_attempts |-> MaxAttempts]

InitContent ==
    InitWith({ [s1 |-> p, s2 |-> EmptyDict] :
                 p \in { EmptyDict,
                         [math |-> 29, science |-> 30],
                         [math |-> 70, science |-> 69, language |-> 100] } })

NextContent == NextFor(ContentCallers)

SpecContent == InitContent /\ [][NextContent]_vars

(***************************************************************************)
(* One student repeating the same skills.                                  *)
(***************************************************************************)
DeepCallers ==
    [identify |-> {<<"s1", "language", HypothesisContent>>},
     recommend |-> {<<"s1", "math", 3, NoContent>>,
                    <<"s1", "language", 3, HypothesisContent>>},
     plan |-> {<<"s1", "math">>},
     track |-> {<<"s1", "exercise_math_fractions_0", 1000, NoFeedback>>},
     skill |-> {<<"s1", "math_fractions", <<>>>>,
                <<"s1", "language_composition", <<>>>>,
                <<"s1", "language_vocabulary", Perfect>>},
     times |-> {1},
     max_records |-> MaxRecords,
     max_attempts |-> MaxDeepAttempts]

InitDeep ==
    InitWith({ [s1 |-> p, s2 |-> EmptyDict] :
                 p \in { [math |-> 20],
                         [math |-> 29, language |-> 70] } })

NextDeep == NextFor(DeepCallers)

SpecDeep == InitDeep /\ [][NextDeep]_vars

(***************************************************************************)
(* Gap adjustment on its own: one assessment record holding one skill of   *)
(* any gap, adjusted by completions whose reduction is no half hundredth.  *)
(***************************************************************************)
Gaps == 0..100

GapCompletions == {0, 1, 333, 415, 500, 600, 999, 1000}

InitGap ==
    /\ progress = [s1 |-> EmptyDict]
    /\ \E g \in Gaps :
          skill_records =
              <<[key |-> AssessmentId("s1", "math", 1),
                 value |-> [student_id |-> "s1", subject |-> "math",
                            current_level |-> 0, tier |-> "beginner",
                            skills |-> <<BaseSkill("math_fractions",
                                                   "Fractions", g)>>]]>>
    /\ learning_histories = EmptyDict
    /\ skill_taxonomies = DOMAIN DefaultTaxonomies
    /\ progress_records = <<>>
    /\ attributes = {"storage_path", "skill_records", "skill_taxonomies"}
    /\ result = [op |-> "__init__", status |-> "returned"]
    /\ tasks = <<>>
    /\ taxonomy_dir = WrittenDefaults

\* a call of _update_skill_gap (lines 643-664); result keeps the call and
\* the local current_gap of line 659 for the first record of the student
AdjustGap(s, subject, skill_id, completion_status) ==
    LET gap == _update_skill_gap(skill_records, 1, s, subject, skill_id,
                                 completion_status)
    IN  /\ skill_records' = gap.records
        /\ result' = [op |-> "_update_skill_gap", status |-> gap.status,
                      student_id |-> s, subject |-> subject,
                      skill_id |-> skill_id,
                      completion_status |-> completion_status,
                      current_gap |-> skill_records[1].value.skills[1].gap_level]
        /\ UNCHANGED <<progress, learning_histories, skill_taxonomies,
                       progress_records, attributes>>

NextGap ==
    \E c \in GapCompletions :
        AdjustGap("s1", "math", "math_fractions", c) /\ UNCHANGED <<tasks, taxonomy_dir>>

SpecGap == InitGap /\ [][NextGap]_vars

(***************************************************************************)
(* Learning-history updates on their own.                                  *)
(***************************************************************************)
MaxUpdates == 3

HistoryCompletions == {0, 500, 1000}

\* the updates made so far, over all students, subjects and skills
TotalAttempts(histories) ==
    LET entries == UNION { UNION { { <<k, subject, skill_id>> :
                                       skill_id \in DOMAIN histories[k][subject] } :
                                   subject \in DOMAIN histories[k] } :
                           k \in DOMAIN histories }
    IN  Cardinality({ <<e, a>> \in entries \X (1..(MaxUpdates + 1)) :
                         a <= histories[e[1]][e[2]][e[3]].attempts })

InitHistory ==
    /\ progress = [s1 |-> EmptyDict, s2 |-> EmptyDict]
    /\ skill_records = <<>>
    /\ learning_histories = EmptyDict
    /\ skill_taxonomies = DOMAIN DefaultTaxonomies
    /\ progress_records = <<>>
    /\ attributes = {"storage_path", "skill_records", "skill_taxonomies"}
    /\ result = [op |-> "__init__", status |-> "returned"]
    /\ tasks = <<>>
    /\ taxonomy_dir = WrittenDefaults

\* a call of _update_learning_history (lines 607-641)
UpdateHistory(s, subject, skill_id, completion_status, feedback) ==
    /\ learning_histories' =
           _update_learning_history(learning_histories, s, subject, skill_id,
                                    completion_status, feedback)
    /\ attributes' = attributes \cup {"learning_histories"}
    /\ result' = [op |-> "_update_learning_history", status |-> "returned",
                  student_id |-> s, subject |-> subject, skill_id |-> skill_id,
                  completion_status |-> completion_status]
    /\ UNCHANGED <<progress, skill_records, skill_taxonomies, progress_records>>

NextHistory ==
    \E s \in {"s1", "s2"}, skill_id \in {"math_fractions", "math_decimals"},
       c \in HistoryCompletions, feedback \in {NoFeedback, "well done"} :
          /\ UpdateHistory(s, "math", skill_id, c, feedback)
          /\ TotalAttempts(learning_histories') <= MaxUpdates
          /\ UNCHANGED <<tasks, taxonomy_dir>>

SpecHistory == InitHistory /\ [][NextHistory]_vars

(***************************************************************************)
(* Callers handing in completions and scores outside their ranges.         *)
(***************************************************************************)
BelowRange == <<[id |-> "e1", score |-> -500]>>
AboveRange == <<[id |-> "e1", score |-> 500]>>

RangeCallers ==
    [identify |-> {<<"s1", "math", NoContent>>},
     recommend |-> {<<"s1", "math", 3, NoContent>>},
     plan |-> {<<"s1", "math">>},
     track |-> {<<"s1", "exercise_math_fractions_0", 2000, NoFeedback>>,
                <<"s1", "exercise_math_decimals_2", -1000, NoFeedback>>},
     skill |-> {<<"s1", "math_fractions", BelowRange>>,
                <<"s1", "math_basic_arithmetic", AboveRange>>,
                <<"s1", "math_decimals", Perfect>>},
     times |-> {1, 2},
     max_records |-> MaxRecords,
     max_attempts |-> MaxAttempts]

InitRange == InitWith({ [s1 |-> [math |-> 20], s2 |-> EmptyDict] })

NextRange == NextFor(RangeCallers)

SpecRange == InitRange /\ [][NextRange]_vars

(***************************************************************************)
(* One student at each tier of math and science and on subjects without   *)
(* canned skills, no content.                                              *)
(***************************************************************************)
CannedCallers ==
    [identify |-> {<<"s1", "math", NoContent>>, <<"s1", "science", NoContent>>,
                   <<"s1", "history", NoContent>>},
     recommend |-> {<<"s1", "science", 3, NoContent>>,
                    <<"s1", "language", 3, NoContent>>},
     plan |-> {<<"s1", "math">>, <<"s1", "history">>},
     track |-> {<<"s1", "exercise_science_hypothesis_0", 1000, NoFeedback>>},
     skill |-> {<<"s1", "math_algebra", Perfect>>},
     times |-> {1, 2},
     max_records |-> MaxRecords,
     max_attempts |-> MaxAttempts]

InitCanned ==
    InitWith({ [s1 |-> p, s2 |-> EmptyDict] :
                 p \in { [math |-> 20, science |-> 20],
                         [math |-> 50, science |-> 50],
                         [math |-> 90, science |-> 90] } })

NextCanned == NextFor(CannedCallers)

SpecCanned == InitCanned /\ [][NextCanned]_vars

(***************************************************************************)
(* One student assessed again and again on the same subject: the store    *)
(* holds several records of the same student and subject.                 *)
(***************************************************************************)
RepeatCallers ==
    [identify |-> {<<"s1", "math", NoContent>>, <<"s1", "math", AdditionContent>>},
     recommend |-> {<<"s1", "math", 3, AdditionContent>>},
     plan |-> {<<"s1", "math">>},
     track |-> {<<"s1", "exercise_math_fractions_0", 1000, NoFeedback>>},
     skill |-> {<<"s1", "math_fractions", Perfect>>},
     times |-> {1, 2},
     max_records |-> MaxRecords + 1,
     max_attempts |-> MaxAttempts]

InitRepeat == InitWith({ [s1 |-> [math |-> 20], s2 |-> EmptyDict] })

NextRepeat == NextFor(RepeatCallers)

SpecRepeat == InitRepeat /\ [][NextRepeat]_vars

(***************************************************************************)
(* Construction on storage paths in different states: no taxonomies        *)
(* directory, an empty one, one holding some of the default files or a    *)
(* file that is no taxonomy.                                               *)
(***************************************************************************)
StoredFiles == DefaultFiles \cup {"notes.txt"}

LoadCallers ==
    [identify |-> {<<"s1", "math", AdditionContent>>,
                   <<"s1", "language", HypothesisContent>>},
     recommend |-> {<<"s1", "math", 3, NoContent>>},
     plan |-> {<<"s1", "math">>},
     track |-> {<<"s1", "exercise_math_fractions_0", 1000, NoFeedback>>},
     skill |-> {<<"s1", "math_fractions", Perfect>>},
     times |-> {1},
     max_records |-> MaxRecords,
     max_attempts |-> MaxAttempts]

InitLoad ==
    /\ progress = [s1 |-> [math |-> 20], s2 |-> EmptyDict]
    /\ skill_records = <<>>
    /\ learning_histories = EmptyDict
    /\ skill_taxonomies = {}
    /\ progress_records = <<>>
    /\ attributes = {}
    /\ result = [op |-> "none", status |-> "none"]
    /\ tasks = <<>>
    /\ \/ taxonomy_dir = [exists |-> FALSE, files |-> {}]
       \/ \E files \in SUBSET StoredFiles :
             taxonomy_dir = [exists |-> TRUE, files |-> files]

NextLoad ==
    \/ Construct
    \/ NextFor(LoadCallers)

SpecLoad == InitLoad /\ [][NextLoad]_vars

(***************************************************************************)
(* Callers that ask for the exercises of one skill.                        *)
(***************************************************************************)
SkillExerciseCallers ==
    [identify |-> {<<"s1", "math", AdditionContent>>},
     recommend |-> {<<"s1", "math", 3, NoContent>>},
     plan |-> {<<"s1", "science">>},
     track |-> {<<"s1", "exercise_math_fractions_0", 1000, NoFeedback>>},
     skill |-> {<<"s1", "math_fractions", Perfect>>},
     times |-> {1, 2},
     max_records |-> MaxRecords,
     max_attempts |-> MaxAttempts]

SkillExerciseCalls ==
    {<<"s1", "math", "math_fractions">>, <<"s1", "math", "math_addition">>,
     <<"s1", "math", "addition">>, <<"s1", "math", "arithmetic">>,
     <<"s1", "science", "science_hypothesis">>, <<"s1", "math", "math_nope">>}

InitSkillExercises ==
    InitWith({ [s1 |-> p, s2 |-> EmptyDict] :
                 p \in { [math |-> 20, science |-> 20],
                         [math |-> 50, science |-> 50] } })

NextSkillExercises ==
    \/ NextFor(SkillExerciseCallers)
    \/ \E c \in SkillExerciseCalls :
          Constructed /\ RecommendSkillExercises(c[1], c[2], c[3])

SpecSkillExercises == InitSkillExercises /\ [][NextSkillExercises]_vars

(***************************************************************************)
(* The event loop.  The coroutines of the agent run as tasks of one        *)
(* asyncio loop; the loop runs a task from its position to its next        *)
(* suspension point, or to its end, before it runs another task.           *)
(***************************************************************************)
\* the await expressions of each coroutine, by the coroutine awaited
\* (lines 124 and 360; no other await in the class)
Awaits ==
    [identify_skills |-> <<>>,
     recommend_exercises |-> <<"identify_skills">>,
     recommend_skill_exercises |-> <<>>,
     track_progress |-> <<>>,
     track_skill_progress |-> <<>>,
     generate_skill_development_plan |-> <<"identify_skills">>]

\* a coroutine that hands control to the loop at each of its awaits
SuspendsAtEveryAwait(coroutine) == Awaits[coroutine] # <<>>

\* awaiting a coroutine runs it inside the task; the task is suspended
\* only where the awaited coroutine is.  No coroutine of the class awaits
\* a future.
RECURSIVE Suspends(_)
Suspends(coroutine) ==
    \E i \in DOMAIN Awaits[coroutine] : Suspends(Awaits[coroutine][i])

\* the calls gathered on the loop, all for student s1
TaskCalls ==
    <<[op |-> "recommend_exercises", args |-> <<"s1", "math", 3, NoContent>>],
      [op |-> "track_skill_progress", args |-> <<"s1", "math_fractions", Perfect>>],
      [op |-> "generate_skill_development_plan", args |-> <<"s1", "math">>],
      [op |-> "identify_skills", args |-> <<"s1", "math", AdditionContent>>],
      [op |-> "track_progress",
       args |-> <<"s1", "exercise_math_fractions_0", 1000, NoFeedback>>]>>

TaskTimes == {1, 2}

InitTasks ==
    /\ progress = [s1 |-> [math |-> 20], s2 |-> EmptyDict]
    /\ skill_records = <<>>
    /\ learning_histories = EmptyDict
    /\ skill_taxonomies = DOMAIN DefaultTaxonomies
    /\ progress_records = <<>>
    /\ attributes = {"storage_path", "skill_records", "skill_taxonomies"}
    /\ result = [op |-> "__init__", status |-> "returned"]
    /\ tasks = [tk \in DOMAIN TaskCalls |-> [call |-> TaskCalls[tk], pc |-> "ready"]]
    /\ taxonomy_dir = WrittenDefaults

\* the whole body of a coroutine
Body(call, t) ==
    LET a == call.args
    IN  CASE call.op = "identify_skills" -> IdentifySkills(a[1], a[2], a[3], t)
          [] call.op = "recommend_exercises" ->
                 RecommendExercises(a[1], a[2], a[3], a[4], t)
          [] call.op = "generate_skill_development_plan" ->
                 GeneratePlan(a[1], a[2], t)
          [] call.op = "track_progress" ->
                 TrackProgress(a[1], a[2], a[3], a[4], t)
          [] call.op = "track_skill_progress" ->
                 TrackSkillProgress(a[1], a[2], a[3], t)

\* the list a suspended coroutine holds in its local skills: the object
\* stored in its assessment record (line 104 stores the list itself)
StoredSkills(records, assessment_id) ==
    LET i == CHOOSE j \in DOMAIN records : records[j].key = assessment_id
    IN  records[i].value.skills

\* the loop runs task tk at clock reading t: from its start to its end, or
\* to its await and, when it is run again, from there to its end
RunTask(tk, t) ==
    LET call == tasks[tk].call
        a == call.args
    IN  /\ tasks[tk].pc # "done"
        /\ UNCHANGED taxonomy_dir
        /\ IF tasks[tk].pc = "ready" /\ ~Suspends(call.op)
           THEN /\ Body(call, t)
                /\ tasks' = [tasks EXCEPT ![tk] =
                                [call |-> call, pc |-> "done", result |-> result']]
           ELSE IF tasks[tk].pc = "ready"
           THEN \E r \in {identify_skills(
                              skill_records, skill_taxonomies, progress[a[1]],
                              a[1], a[2],
                              IF call.op = "recommend_exercises" THEN a[4]
                              ELSE NoContent, t)} :
                   /\ skill_records' = r.records
                   /\ tasks' = [tasks EXCEPT ![tk] =
                                   [call |-> call, pc |-> "awaiting",
                                    assessment_id |-> r.assessment_id]]
                   /\ UNCHANGED <<progress, learning_histories, skill_taxonomies,
                                  progress_records, attributes, result>>
           ELSE \E r \in {[records |-> skill_records,
                           assessment_id |-> tasks[tk].assessment_id,
                           skills |-> StoredSkills(skill_records,
                                                   tasks[tk].assessment_id)]} :
                   /\ IF call.op = "recommend_exercises"
                      THEN RecommendFrom(r, a[1], a[2], a[3], a[4])
                      ELSE PlanFrom(r, a[1], a[2])
                   /\ tasks' = [tasks EXCEPT ![tk] =
                                   [call |-> call, pc |-> "done", result |-> result']]

NextTasks == \E tk \in DOMAIN TaskCalls, t \in TaskTimes : RunTask(tk, t)

SpecTasks == InitTasks /\ [][NextTasks]_vars

(***************************************************************************)
(* Properties                                                              *)
(***************************************************************************)
\* the stored entries that are assessment records
Assessments(records) ==
    { records[i].value : i \in { j \in DOMAIN records :
                                   "skills" \in DOMAIN records[j].value } }

SkillsOf(assessment) ==
    { assessment.skills[j] : j \in DOMAIN assessment.skills }

\* C1: every gap_level of every skill in every stored record and every
\* student.progress[subject] lies in [0.0, 1.0] (0..100 hundredths).
C1_Ranges ==
    /\ \A a \in Assessments(skill_records) :
          \A skill \in SkillsOf(a) : skill.gap_level \in 0..100
    /\ \A s \in DOMAIN progress :
          \A subject \in DOMAIN progress[s] : progress[s][subject] \in 0..100

\* C1 witness: a progress report has brought a stored gap down to 0.0
C1_GapAtZero ==
    /\ result.op = "track_skill_progress"
    /\ \E a \in Assessments(skill_records) :
          \E skill \in SkillsOf(a) :
             skill.id = result.skill_id /\ skill.gap_level = 0

\* no stored assessment record of the student holds a skill whose id makes
\* "exercise_{skill id}" a prefix of the exercise id
NoMatchingSkill(records, student_id, exercise_id) ==
    \A a \in Assessments(records) :
       a.student_id = student_id =>
          \A skill \in SkillsOf(a) :
             ~StartsWith(exercise_id, "exercise_" \o skill.id)

TrackedAttempts(histories, student_id, subject, skill_id) ==
    Get(Get(SubjectHistory(histories, student_id, subject), skill_id, EmptyDict),
        "attempts", 0)

\* C2: a track_progress call whose exercise id resolves to a skill returns
\* previous_progress and new_progress, adds a progress-tracking entry, sets
\* progress[subject] to min(previous + completion_status * 0.05, 1.0),
\* counts one more attempt in the learning history and lowers the gap of
\* the skill by the gap adjustment.
C2_TrackProgressUpdates ==
    [][(/\ result'.op = "track_progress"
        /\ ~NoMatchingSkill(skill_records, result'.student_id,
                            result'.exercise_id))
       => /\ result'.status = "returned"
          /\ {"previous_progress", "new_progress"} \subseteq DOMAIN result'
          /\ Len(progress_records') = Len(progress_records) + 1
          /\ LET s == result'.student_id
                 subject == result'.subject
                 skill_id == result'.skill_id
                 c == result'.completion_status
                 previous == Get(progress[s], subject, 0)
             IN  /\ result'.previous_progress = previous
                 /\ result'.new_progress = progress'[s][subject]
                 /\ progress'[s][subject] * 200 = Min(previous * 200 + c, 20000)
                 /\ TrackedAttempts(learning_histories', s, subject, skill_id)
                      = TrackedAttempts(learning_histories, s, subject, skill_id) + 1
                 /\ \E i \in DOMAIN skill_records :
                       /\ "skills" \in DOMAIN skill_records[i].value
                       /\ \E j \in DOMAIN skill_records[i].value.skills :
                             LET before == skill_records[i].value.skills[j]
                                 after == skill_records'[i].value.skills[j]
                             IN  /\ before.id = skill_id
                                 /\ after.gap_level * 100 <= Max(0,
                                        before.gap_level * 100 - c * 2) + 50
                                 /\ after.gap_level * 100 >= Max(0,
                                        before.gap_level * 100 - c * 2) - 50
      ]_vars

\* C3: a track_progress call whose exercise id matches no skill of the
\* student's assessment records ends with the not-found error, and
\* progress, the learning histories and the stored records stay as they are.
C3_NotFoundReported ==
    [][(/\ result'.op = "track_progress"
        /\ NoMatchingSkill(skill_records, result'.student_id,
                           result'.exercise_id))
       => /\ result'.status = "returned"
          /\ "error" \in DOMAIN result'
          /\ UNCHANGED <<progress, learning_histories, skill_records>>
      ]_vars

\* min(1.0, average score / 100) in thousandths, 0 for no results, read
\* off the ids and scores the caller handed in
ClaimedProgressLevel(exercise_results) ==
    IF exercise_results = <<>> THEN 0
    ELSE Min(1000, (SumSeq([i \in DOMAIN exercise_results |->
                               exercise_results[i].score]) * 10)
                       \div Len(exercise_results))

\* C4: track_skill_progress always returns its progress record, whatever
\* the store holds; it never ends with an exception.
C4_AlwaysReturnsRecord ==
    result.op = "track_skill_progress"
       => /\ result.status = "returned"
          /\ "value" \in DOMAIN result
          /\ result.value.progress_level = result.progress_level
          /\ \E c \in Callers.skill :
                /\ c[2] = result.skill_id
                /\ result.progress_level = ClaimedProgressLevel(c[3])

\* C5: every identify_skills call leaves the store one record longer and
\* every record that was there as it was.
C5_IdentifyAddsRecord ==
    [][result'.op = "identify_skills"
       => /\ Len(skill_records') = Len(skill_records) + 1
          /\ \A i \in DOMAIN skill_records : skill_records'[i] = skill_records[i]
      ]_vars

\* C6: the gap_level of a skill in a stored assessment record never
\* increases from one state to the next.
C6_GapNeverIncreases ==
    [][\A i \in DOMAIN skill_records : \A k \in DOMAIN skill_records' :
          (/\ skill_records[i].key = skill_records'[k].key
           /\ "skills" \in DOMAIN skill_records[i].value
           /\ "skills" \in DOMAIN skill_records'[k].value)
          => \A before \in SkillsOf(skill_records[i].value) :
                \A after \in SkillsOf(skill_records'[k].value) :
                   (before.id = after.id /\ before.name = after.name)
                      => after.gap_level <= before.gap_level
      ]_vars

\* C7: the adjusted gap is max(0.0, current_gap - completion_status * 0.2)
\* rounded to the nearest hundredth; 0.5 with completion 1.0 becomes 0.3
\* and a gap below the reduction becomes 0.0.
C7_GapAdjustment ==
    result.op = "_update_skill_gap"
       => LET g == result.current_gap
              c == result.completion_status
              exact == Max(0, g * 100 - c * 2)
              new_gap == skill_records[1].value.skills[1].gap_level
          IN  /\ new_gap * 100 - exact \in -50..50
              /\ (g = 50 /\ c = 1000) => new_gap = 30
              /\ g * 100 < c * 2 => new_gap = 0

\* C7 witness: a gap of 0.5 adjusted by a completion of 1.0 is stored as 0.3
C7_HalfToThreeTenths ==
    /\ result.op = "_update_skill_gap"
    /\ result.current_gap = 50
    /\ result.completion_status = 1000
    /\ skill_records[1].value.skills[1].gap_level = 30

\* the positions in the identify_skills result of the skill an exercise
\* was made for
SourcePositions(exercise) ==
    { p \in DOMAIN result.skills :
        /\ result.skills[p].id = exercise.skill_id
        /\ result.skills[p].name = exercise.skill_name }

\* C8: recommend_exercises returns at most count exercises, in the order
\* of non-increasing gap of their source skills, skills of equal gap in
\* the order of the identify_skills result.
C8_CountAndOrder ==
    result.op = "recommend_exercises"
       => /\ Len(result.exercises) <= result.count
          /\ \A i \in DOMAIN result.exercises :
                SourcePositions(result.exercises[i]) # {}
          /\ \A i, j \in DOMAIN result.exercises :
                i < j =>
                   \A p \in SourcePositions(result.exercises[i]) :
                      \A q \in SourcePositions(result.exercises[j]) :
                         /\ result.skills[p].gap_level >= result.skills[q].gap_level
                         /\ result.skills[p].gap_level = result.skills[q].gap_level
                               => p < q

\* C8 witness: the count cuts the list short and two of the returned
\* exercises come from skills of equal gap
C8_TiesReturned ==
    /\ result.op = "recommend_exercises"
    /\ Len(result.exercises) = result.count
    /\ Len(result.skills) > result.count
    /\ \E i, j \in DOMAIN result.exercises :
          /\ i < j
          /\ \E p \in SourcePositions(result.exercises[i]) :
                \E q \in SourcePositions(result.exercises[j]) :
                   result.skills[p].gap_level = result.skills[q].gap_level

\* the claimed level factor, in thousandths
ClaimedLevelFactor(skill) ==
    LET level == IF "level" \in DOMAIN skill THEN skill.level ELSE "beginner"
    IN  IF level = "beginner" THEN -100
        ELSE IF level = "advanced" THEN 100
        ELSE 0

\* the claimed difficulty before rounding, in thousandths
ClaimedDifficulty(skill, progress_level, previous_attempts) ==
    LET attempt_part == IF previous_attempts >= 4 THEN 200
                        ELSE previous_attempts * 50
        sum == skill.gap_level * 10 + progress_level * 5
                 + ClaimedLevelFactor(skill) + attempt_part
    IN  IF sum < 100 THEN 100 ELSE IF sum > 1000 THEN 1000 ELSE sum

C10_TierThresholds ==
    \A a \in Assessments(skill_records) :
       LET level == IF a.subject \in DOMAIN progress[a.student_id]
                    THEN progress[a.student_id][a.subject]
                    ELSE 0
       IN  /\ a.current_level = level
           /\ level < 30 => a.tier = "beginner"
           /\ (30 <= level /\ level < 70) => a.tier = "intermediate"
           /\ level >= 70 => a.tier = "advanced"

\* C10 witness: identify_skills has stored a beginner record for progress
\* 0.29 and an intermediate record for progress 0.3
C10_BothSidesOfThreshold ==
    /\ \E a \in Assessments(skill_records) :
          a.current_level = 29 /\ a.tier = "beginner"
    /\ \E a \in Assessments(skill_records) :
          a.current_level = 30 /\ a.tier = "intermediate"

\* the history entry of a student, subject and skill, the one a first
\* update starts from when there is none
HistoryEntry(histories, student_id, subject, skill_id) ==
    Get(SubjectHistory(histories, student_id, subject), skill_id,
        [attempts |-> 0, completions |-> <<>>])

HasHistoryEntry(histories, student_id, subject, skill_id) ==
    skill_id \in DOMAIN SubjectHistory(histories, student_id, subject)

\* C11: each learning-history update counts one more attempt, appends its
\* completion after the earlier ones and sets average_completion to the
\* arithmetic mean of all completions; attempts is the number of
\* completions, and the entry exists only once it was updated.
C11_HistoryAveraging ==
    [][result'.op = "_update_learning_history"
       => LET s == result'.student_id
              subject == result'.subject
              skill_id == result'.skill_id
              before == HistoryEntry(learning_histories, s, subject, skill_id)
              after == HistoryEntry(learning_histories', s, subject, skill_id)
          IN  /\ HasHistoryEntry(learning_histories', s, subject, skill_id)
              /\ HasHistoryEntry(learning_histories, s, subject, skill_id)
                    <=> before.attempts > 0
              /\ after.attempts = before.attempts + 1
              /\ after.attempts = Len(after.completions)
              /\ after.completions =
                    Append(before.completions, result'.completion_status)
              /\ after.average_completion.num * Len(after.completions)
                    = SumSeq(after.completions) * after.average_completion.den
      ]_vars

\* C11 witness: completions [0.5, 1.0] give attempts 2 and the average 0.75
C11_HalfThenFull ==
    /\ result.op = "_update_learning_history"
    /\ LET entry == HistoryEntry(learning_histories, result.student_id,
                                 result.subject, result.skill_id)
       IN  /\ entry.completions = <<500, 1000>>
           /\ entry.attempts = 2
           /\ entry.average_completion.num = 750 * entry.average_completion.den

\* C12: with completions and scores outside their ranges handed in, every
\* stored gap_level and every progress value still lies in [0.0, 1.0].
C12_ClampedDefensively ==
    /\ \A i \in DOMAIN skill_records :
          "skills" \in DOMAIN skill_records[i].value =>
             \A j \in DOMAIN skill_records[i].value.skills :
                /\ skill_records[i].value.skills[j].gap_level >= 0
                /\ skill_records[i].value.skills[j].gap_level <= 100
    /\ \A s \in DOMAIN progress : \A subject \in DOMAIN progress[s] :
          progress[s][subject] >= 0 /\ progress[s][subject] <= 100

\* the stored record of the call result reports
ResultRecord ==
    LET i == CHOOSE k \in DOMAIN skill_records :
                skill_records[k].key = result.assessment_id
    IN  skill_records[i].value

\* C13: with content, identify_skills returns the base skills followed by
\* one new skill per matching taxonomy skill whose name no base skill has,
\* in taxonomy order, each with gap_level 0.3, the level of the taxonomy
\* entry and the id "{subject}_{name}".
C13_ContentAppends ==
    (result.op = "identify_skills" /\ result.content # "")
       => LET skills == result.skills
              subject == result.subject
              content == CHOOSE c \in Contents : c.text = result.content
              base == _map_skills_for_subject(subject, ResultRecord.tier)
              taxonomy == DefaultTaxonomies[subject]
              fresh == { e \in DOMAIN taxonomy :
                           /\ SkillMatches(taxonomy[e], content, KeywordHits[content])
                           /\ \A b \in DOMAIN base :
                                 Lower(base[b].name) # Lower(taxonomy[e].name) }
              n == Len(base)
          IN  /\ Len(skills) = n + Cardinality(fresh)
              /\ \A i \in 1..n :
                    skills[i].id = base[i].id /\ skills[i].name = base[i].name
              /\ \A i \in (n + 1)..Len(skills) :
                    \E e \in fresh :
                       /\ Cardinality({ f \in fresh : f < e }) = i - n - 1
                       /\ skills[i].name = taxonomy[e].name
                       /\ skills[i].id = subject \o "_" \o taxonomy[e].name
                       /\ skills[i].level = taxonomy[e].level
                       /\ skills[i].gap_level = 30

\* C13 witness: beginner math with "Let's practice addition: 2 + 3 = 5"
\* returns the addition skill with gap 0.3 after the three base skills
C13_AdditionAppended ==
    /\ result.op = "identify_skills"
    /\ result.content = AdditionContent.text
    /\ ResultRecord.tier = "beginner"
    /\ Len(result.skills) = 4
    /\ result.skills[4].id = "math_addition"
    /\ result.skills[4].gap_level = 30

\* C14: without content identify_skills returns the canned list of the
\* subject and of the tier of the student's progress, with the seeded gap
\* levels; for progress {"math": 0.2} these are math_basic_arithmetic
\* (0.2), math_fractions (0.5), math_decimals (0.4), stored as beginner.
C14_CannedSkills ==
    (result.op = "identify_skills" /\ result.content = "")
       => LET subject == result.subject
              level == IF subject \in DOMAIN progress[result.student_id]
                       THEN progress[result.student_id][subject]
                       ELSE 0
              tier == IF level < 30 THEN "beginner"
                      ELSE IF level < 70 THEN "intermediate"
                      ELSE "advanced"
          IN  /\ (subject \in DOMAIN skill_map /\ tier \in DOMAIN skill_map[subject])
                    => result.skills = skill_map[subject][tier]
              /\ (subject = "math" /\ level = 20)
                    => /\ [i \in DOMAIN result.skills |->
                             <<result.skills[i].id, result.skills[i].gap_level>>]
                          = << <<"math_basic_arithmetic", 20>>,
                               <<"math_fractions", 50>>,
                               <<"math_decimals", 40>> >>
                       /\ ResultRecord.tier = "beginner"

\* C14 witness: identify_skills without content for an intermediate
\* science student has returned the three intermediate science skills
C14_IntermediateScience ==
    /\ result.op = "identify_skills"
    /\ result.content = ""
    /\ result.subject = "science"
    /\ ResultRecord.tier = "intermediate"
    /\ Len(result.skills) = 3
    /\ result.skills[1].id = "science_hypothesis"

\* C15: without content and for a subject that has no canned skills,
\* identify_skills returns no skills, recommend_exercises no exercises and
\* generate_skill_development_plan a plan of 0 weeks with an empty
\* timeline; each of them returns.
C15_UnknownSubjectEmpty ==
    (/\ result.op \in {"identify_skills", "recommend_exercises",
                       "generate_skill_development_plan"}
     /\ "content" \in DOMAIN result => result.content = ""
     /\ result.subject \notin {"math", "science"})
       => /\ result.status = "returned"
          /\ result.skills = <<>>
          /\ result.op = "recommend_exercises" => result.exercises = <<>>
          /\ result.op = "generate_skill_development_plan"
                => result.duration_weeks = 0 /\ result.timeline = <<>>

\* C15 witness: a plan for a subject without canned skills
C15_EmptyPlan ==
    /\ result.op = "generate_skill_development_plan"
    /\ result.subject = "history"
    /\ result.duration_weeks = 0

\* the gap the identified skills give for an entry of the timeline
TimelineGap(entry) ==
    LET p == CHOOSE q \in DOMAIN result.skills :
                /\ result.skills[q].id = entry.skill_id
                /\ result.skills[q].name = entry.skill_name
    IN  result.skills[p].gap_level

\* C16: the plan schedules min(5, number of identified skills) skills, the
\* ones of largest gap in non-increasing gap order, in the weeks 1, 2, ...
\* with target_improvement 0.2 each; duration_weeks is the length of the
\* timeline, priority_skills are the ids of the timeline in its order and
\* target_level is min(1.0, current_level + 0.3).
C16_PlanTimeline ==
    result.op = "generate_skill_development_plan"
       => LET timeline == result.timeline
              skills == result.skills
              scheduled == { <<timeline[i].skill_id, timeline[i].skill_name>> :
                               i \in DOMAIN timeline }
              level == IF result.subject \in DOMAIN progress[result.student_id]
                       THEN progress[result.student_id][result.subject]
                       ELSE 0
          IN  /\ Len(timeline) = IF Len(skills) < 5 THEN Len(skills) ELSE 5
              /\ Cardinality(scheduled) = Len(timeline)
              /\ \A i \in DOMAIN timeline :
                    /\ timeline[i].week = i
                    /\ timeline[i].target_improvement = 20
                    /\ \E q \in DOMAIN skills :
                          /\ skills[q].id = timeline[i].skill_id
                          /\ skills[q].name = timeline[i].skill_name
                    /\ result.priority_skills[i] = timeline[i].skill_id
              /\ \A i, j \in DOMAIN timeline :
                    i < j => TimelineGap(timeline[i]) >= TimelineGap(timeline[j])
              /\ \A q \in DOMAIN skills :
                    <<skills[q].id, skills[q].name>> \notin scheduled
                       => \A i \in DOMAIN timeline :
                             TimelineGap(timeline[i]) >= skills[q].gap_level
              /\ result.duration_weeks = Len(timeline)
              /\ Len(result.priority_skills) = Len(timeline)
              /\ result.current_level = level
              /\ result.target_level = IF level + 30 > 100 THEN 100 ELSE level + 30

\* C16 witness: a three-week plan that starts with a skill identify_skills
\* did not return first and whose target level is capped at 1.0
C16_ReorderedPlan ==
    /\ result.op = "generate_skill_development_plan"
    /\ result.duration_weeks = 3
    /\ result.timeline[1].skill_id # result.skills[1].id
    /\ result.target_level = 100
    /\ result.current_level = 90

\* the list identify_skills returns for a call of recommend_exercises or
\* generate_skill_development_plan on an agent nobody else is using
FreshSkills(call) ==
    identify_skills(<<>>, skill_taxonomies, progress[call.args[1]],
                    call.args[1], call.args[2],
                    IF call.op = "recommend_exercises" THEN call.args[4]
                    ELSE NoContent, 0).skills

\* C17: each operation runs as one step of the event loop: no task is ever
\* suspended inside an operation, and a recommendation or a plan is computed
\* from the skills its own identify_skills returned, untouched by the other
\* tasks, as in a serial order of the calls.
C17_AtomicOperations ==
    \A tk \in DOMAIN tasks :
        /\ tasks[tk].pc \in {"ready", "done"}
        /\ ( /\ tasks[tk].pc = "done"
             /\ tasks[tk].call.op \in {"recommend_exercises",
                                       "generate_skill_development_plan"} )
           => /\ tasks[tk].result.op = tasks[tk].call.op
              /\ tasks[tk].result.status = "returned"
              /\ tasks[tk].result.skills = FreshSkills(tasks[tk].call)

\* every gathered call has run, the recommendation after the skill of its
\* student was tracked and its gap reduced in the store
C17_AllTasksRan ==
    /\ tasks # <<>>
    /\ \A tk \in DOMAIN tasks : tasks[tk].pc = "done"
    /\ result.op = "recommend_exercises"
    /\ \E i \in DOMAIN skill_records :
          /\ "skills" \in DOMAIN skill_records[i].value
          /\ \E j \in DOMAIN skill_records[i].value.skills :
                /\ skill_records[i].value.skills[j].id = "math_fractions"
                /\ skill_records[i].value.skills[j].gap_level = 30


\* the indices of the assessment records of the student and subject that
\* hold the skill
MatchingRecords(records, student_id, subject, skill_id) ==
    { i \in DOMAIN records :
        /\ records[i].value.student_id = student_id
        /\ "subject" \in DOMAIN records[i].value
        /\ records[i].value.subject = subject
        /\ "skills" \in DOMAIN records[i].value
        /\ \E j \in DOMAIN records[i].value.skills :
              records[i].value.skills[j].id = skill_id }

\* C18: a gap adjustment changes the skill in the first stored record of
\* the student and subject that holds it and stops: every later record
\* holding the skill is left as it was.
C18_LaterRecordsUntouched ==
    [][ ( /\ result'.op = "track_skill_progress"
          /\ "subject" \in DOMAIN result' )
        => LET matching == MatchingRecords(skill_records, result'.student_id,
                                           result'.subject, result'.skill_id)
           IN  \A i \in matching, k \in matching :
                   i < k => skill_records'[k] = skill_records[k] ]_vars


\* C19: every entry of the skill-records store is an assessment record
\* written by identify_skills, with the fields student_id, subject, tier and
\* skills, so that no scan of the store meets an entry without subject or
\* skills.
C19_OnlyAssessmentRecords ==
    \A i \in DOMAIN skill_records :
        {"student_id", "subject", "tier", "skills"}
            \subseteq DOMAIN skill_records[i].value


\* the content handed to the call result reports
ContentOf(call) ==
    IF "content" \in DOMAIN call
    THEN CHOOSE c \in Contents : c.text = call.content
    ELSE NoContent

\* the skills identify_skills returns for the call on an agent whose store
\* is empty
SkillsOnEmptyStore(call) ==
    identify_skills(<<>>, skill_taxonomies, progress[call.student_id],
                    call.student_id, call.subject, ContentOf(call), 0).skills

\* C20: the skills identify_skills returns, on its own and inside
\* recommend_exercises and the plan, are those it returns for the same
\* subject, progress and content on an empty store, whatever was tracked and
\* adjusted before; the skills exercises are recommended for carry the gaps
\* of that list.
C20_SkillsIndependentOfStore ==
    [][ result'.op \in {"identify_skills", "recommend_exercises",
                        "generate_skill_development_plan"}
        => /\ result'.skills = SkillsOnEmptyStore(result')
           /\ result'.op = "recommend_exercises"
              => \A i \in DOMAIN result'.target_skills :
                    \E j \in DOMAIN result'.skills :
                        result'.target_skills[i] = result'.skills[j] ]_vars

\* identify_skills has returned Fractions with its gap of 0.5 while an
\* earlier record of the student and subject holds it reduced to 0.3
C20_ReducedGapStored ==
    /\ result.op = "identify_skills"
    /\ \E j \in DOMAIN result.skills :
          /\ result.skills[j].id = "math_fractions"
          /\ result.skills[j].gap_level = 50
    /\ \E i \in DOMAIN skill_records :
          /\ skill_records[i].key # result.assessment_id
          /\ "skills" \in DOMAIN skill_records[i].value
          /\ skill_records[i].value.subject = result.subject
          /\ \E j \in DOMAIN skill_records[i].value.skills :
                /\ skill_records[i].value.skills[j].id = "math_fractions"
                /\ skill_records[i].value.skills[j].gap_level = 30


\* C21: track_progress on the id of an exercise recommend_exercises has
\* just returned to the student resolves it to the skill and the subject of
\* that exercise, whatever else the store holds: never another skill,
\* never another subject, never "not found", and the scan does not fail.
C21_ExerciseResolves ==
    [][ ( /\ result.op = "recommend_exercises"
          /\ result'.op = "track_progress"
          /\ result'.student_id = result.student_id )
        => \A i \in DOMAIN result.exercises :
              result.exercises[i].id = result'.exercise_id
              => /\ "skill_id" \in DOMAIN result'
                 /\ result'.skill_id = result.exercises[i].skill_id
                 /\ result'.subject = result.exercises[i].subject ]_vars


\* the identified skills of the call with a gap above 0.4
Significant(call) ==
    { call.skills[j] : j \in { k \in DOMAIN call.skills :
                                 call.skills[k].gap_level > 40 } }

\* C22: the skills exercises are made for are the identified skills with a
\* gap strictly above 0.4, all of them when the count allows; a gap of 0.4
\* itself is left out even when fewer than count exercises result.  Only
\* when no skill has such a gap are all identified skills used.
C22_SignificantGapsOnly ==
    result.op = "recommend_exercises"
       => LET targets == { result.target_skills[i] :
                             i \in DOMAIN result.target_skills }
              all == { result.skills[j] : j \in DOMAIN result.skills }
          IN  /\ \A i \in DOMAIN result.exercises :
                    result.exercises[i].skill_id = result.target_skills[i].id
              /\ Len(result.exercises) = Len(result.target_skills)
              /\ Significant(result) # {}
                    => /\ targets \subseteq Significant(result)
                       /\ result.count >= Len(result.skills)
                             => targets = Significant(result)
              /\ Significant(result) = {}
                    => /\ targets \subseteq all
                       /\ result.count >= Len(result.skills) => targets = all

\* C22 witness: three exercises were asked for, one skill has a gap of 0.5
\* and one of exactly 0.4, and the one exercise returned is for the former
C22_FourTenthsLeftOut ==
    /\ result.op = "recommend_exercises"
    /\ result.count = 3
    /\ \E j \in DOMAIN result.skills : result.skills[j].gap_level = 40
    /\ Len(result.exercises) = 1
    /\ result.target_skills[1].gap_level = 50


\* the canned skills of the call, and the taxonomy skills its content
\* matches
BaseOf(call) ==
    _map_skills_for_subject(
        call.subject, TierOf(Get(progress[call.student_id], call.subject, 0)))

MatchedBy(call) ==
    LET content == ContentOf(call)
        taxonomy == IF content.given /\ Lower(call.subject) \in skill_taxonomies
                    THEN DefaultTaxonomies[Lower(call.subject)]
                    ELSE <<>>
    IN  { taxonomy[i] : i \in { k \in DOMAIN taxonomy :
                                  SkillMatches(taxonomy[k], content,
                                               KeywordHits[content]) } }

\* C23: where the content matches a taxonomy skill that has, letter case
\* aside, the name of a canned skill of the result, that skill stays the
\* only one of its name and its gap becomes min(gap, 0.2); no canned skill
\* comes back with a gap above its canned one.
C23_PresentSkillLowered ==
    result.op \in {"identify_skills", "recommend_exercises"}
       => LET base == BaseOf(result)
          IN  /\ Len(result.skills) >= Len(base)
              /\ \A j \in DOMAIN base :
                    /\ result.skills[j].id = base[j].id
                    /\ result.skills[j].gap_level <= base[j].gap_level
                    /\ \A m \in MatchedBy(result) :
                          Lower(m.name) = Lower(base[j].name)
                          => /\ result.skills[j].gap_level
                                   = Min(base[j].gap_level, 20)
                             /\ \A k \in DOMAIN result.skills :
                                   Lower(result.skills[k].name) = Lower(m.name)
                                   => k = j

\* C23 witness: the content names an experiment to a student at the
\* intermediate tier of science; Experimentation, canned with 0.5, comes
\* back once, with 0.2
C23_ExperimentationLowered ==
    /\ result.op = "identify_skills"
    /\ result.subject = "science"
    /\ \E m \in MatchedBy(result) : m.name = "experimentation"
    /\ \E j \in DOMAIN result.skills :
          /\ result.skills[j].name = "Experimentation"
          /\ BaseOf(result)[j].gap_level = 50
          /\ result.skills[j].gap_level = 20


\* C24: in every skill list identify_skills has returned and in every
\* stored assessment record the skill ids are pairwise distinct.
C24_DistinctSkillIds ==
    /\ result.op = "identify_skills"
          => \A i, j \in DOMAIN result.skills :
                result.skills[i].id = result.skills[j].id => i = j
    /\ \A a \in Assessments(skill_records) :
          \A i, j \in DOMAIN a.skills :
              a.skills[i].id = a.skills[j].id => i = j


\* the tier the claim gives a skill: its level, and for a canned skill
\* the tier of the student it was identified for
ClaimedTier(skill, call) ==
    IF "level" \in DOMAIN skill THEN skill.level
    ELSE TierOf(Get(progress[call.student_id], call.subject, 0))

\* C25: the exercise_type of a recommended exercise is the preferred type
\* of the student where that suits the tier of the skill, and otherwise the
\* default of that tier: multiple_choice, short_answer or project.
C25_ExerciseType ==
    result.op = "recommend_exercises"
       => \A i \in DOMAIN result.exercises :
             LET tier == ClaimedTier(result.target_skills[i], result)
                 preferred_type == Get(StudentPreferences, "exercise_type", "None")
             IN  result.exercises[i].exercise_type
                    = IF preferred_type \in level_appropriate[tier]
                      THEN preferred_type
                      ELSE default_types[tier]


\* the learning-history entries of histories are in later as they are
EntriesKept(histories, later) ==
    \A k \in DOMAIN histories :
        /\ k \in DOMAIN later
        /\ \A subject \in DOMAIN histories[k] :
              /\ subject \in DOMAIN later[k]
              /\ \A skill_id \in DOMAIN histories[k][subject] :
                    /\ skill_id \in DOMAIN later[k][subject]
                    /\ later[k][subject][skill_id] = histories[k][subject][skill_id]

\* what recommend_exercises leaves alone: student.progress, every record
\* that was stored, the skills of its own record as identify_skills
\* returned them, and every learning-history entry
RecommendKeeps ==
    /\ progress' = progress
    /\ \A i \in DOMAIN skill_records' :
          skill_records'[i].key # result'.assessment_id
          => /\ i \in DOMAIN skill_records
             /\ skill_records'[i] = skill_records[i]
    /\ \A i \in DOMAIN skill_records' :
          skill_records'[i].key = result'.assessment_id
          => skill_records'[i].value.skills = result'.skills
    /\ EntriesKept(learning_histories, learning_histories')

\* C26: recommend_exercises adds exactly one assessment record and changes
\* nothing else: not student.progress, not the gap or the order of the
\* skills of any stored record, its own included, and no attempts,
\* completions or feedback of a learning-history entry.
C26_RecommendFrame ==
    [][ result'.op = "recommend_exercises"
        => /\ Len(skill_records') = Len(skill_records) + 1
           /\ \A i \in DOMAIN skill_records :
                 skill_records'[i] = skill_records[i]
           /\ RecommendKeeps ]_vars


TierRank(tier) ==
    IF tier = "beginner" THEN 1 ELSE IF tier = "intermediate" THEN 2 ELSE 3

\* the completions in [0.0, 1.0] the progress update is exact for
UnitCompletions == {0, 200, 400, 600, 800, 1000}

\* the update of lines 273-276 lowers neither a progress nor its tier
ProgressUpdateMonotone ==
    \A current \in 0..100, c \in UnitCompletions :
        /\ NewProgress(current, c) >= current
        /\ TierRank(TierOf(NewProgress(current, c))) >= TierRank(TierOf(current))

C28_AttemptSentences ==
    result.op = "recommend_exercises"
       => \A i \in DOMAIN result.exercises :
             LET attempts == TrackedAttempts(learning_histories,
                                 result.student_id, result.subject,
                                 result.exercises[i].skill_id)
             IN  /\ result.exercises[i].description.attempts_sentence
                       <=> attempts > 0
                 /\ result.exercises[i].description.challenge_sentence
                       <=> attempts > 2


\* the taxonomy documents a directory holds
TaxonomyDocuments(dir) ==
    IF dir.exists THEN { f \in dir.files : EndsWith(f, ".json") } ELSE {}

\* C29: a construction that finds no taxonomy document on disk, the
\* directory missing or there without one, writes the default files of
\* math, language and science and has loaded all three afterwards.
C29_DefaultsWhenEmpty ==
    [][ ( /\ result'.op = "__init__"
          /\ attributes = {}
          /\ TaxonomyDocuments(taxonomy_dir) = {} )
        => /\ DefaultFiles \subseteq taxonomy_dir'.files
           /\ {"math", "language", "science"} \subseteq skill_taxonomies' ]_vars


\* the ids of the skills of a subject: the canned ones of any tier and
\* those content analysis makes of the taxonomy of the subject
KnownSkillIds(subject) ==
    { _map_skills_for_subject(subject, tier)[j].id :
        <<tier, j>> \in { x \in Tiers \X (1..3) :
                            x[2] \in DOMAIN _map_skills_for_subject(subject, x[1]) } }
    \cup { subject \o "_" \o ReplaceSpaces(Lower(DefaultTaxonomies[subject][i].name)) :
             i \in DOMAIN Get(DefaultTaxonomies, subject, <<>>) }

\* C30: recommend_skill_exercises returns for a known skill of the subject
\* three exercises exercise_{skill_id}_0, _1, _2 of increasing difficulty
\* with 15, 20 and 25 minutes, and the empty list for an unknown skill only.
C30_ThreeExercises ==
    result.op = "recommend_skill_exercises"
       => IF result.skill_id \in KnownSkillIds(result.subject)
          THEN /\ Len(result.exercises) = 3
               /\ \A i \in 1..3 :
                     /\ result.exercises[i].id
                           = "exercise_" \o result.skill_id \o "_" \o ToString(i - 1)
                     /\ result.exercises[i].estimated_time = 10 + 5 * i
               /\ \A i \in 1..2 :
                     result.exercises[i].difficulty
                        < result.exercises[i + 1].difficulty
          ELSE result.exercises = <<>>


====
